---------------------------- MODULE Spec2Model ----------------------------
(***************************************************************************)
(* irctweets: a collector (src/bin/irctweets-collect.rs) that records the  *)
(* tweet links of IRC channel messages in a sqlite store, and a publisher  *)
(* (src/bin/irctweets-publish.rs) that retweets the recorded tweets and    *)
(* writes the outcome back.                                                *)
(*                                                                         *)
(* Specifications:                                                         *)
(*   SpecCollect   the collector as written: handle_message over the       *)
(*                 incoming IRC messages.  Its test at line 94 returns for *)
(*                 every channel message, so the link loop is never        *)
(*                 entered.                                                *)
(*   Spec          the link loop of handle_message (lines 99-128), run    *)
(*                 link by link for messages that passed lines 78-92,      *)
(*                 interleaved with the ticks of the publisher process on  *)
(*                 the same store.                                         *)
(*   SpecTwo       the same with two publisher processes on the store.     *)
(*   SpecGetTweet  get_tweet applied to candidate URLs.                    *)
(*   SpecRecorder  the collector alone: handle_message as written, the     *)
(*                 link loop run directly, and the end of the IRC stream.  *)
(*   SpecRun       Spec with the limit of the batch scaled down and weak   *)
(*                 fairness on the steps of the publisher.                 *)
(*   SpecLive      the same with strong fairness on the query and on the   *)
(*                 write-back returning Ok.                                *)
(*                                                                         *)
(* Scaling: TLC has 32-bit integers, so u64/i64 are modelled with IdBits   *)
(* bits instead of 64 (U64_MAX = 2^IdBits - 1, two's complement casts).    *)
(* A text is a sequence of tokens, a URL is what url::Url::parse makes of  *)
(* it (scheme, host, path segments), a path segment is a sequence of       *)
(* characters.  The line table's timestamp column is left out.             *)
(***************************************************************************)
EXTENDS Integers, Sequences, FiniteSets, TLC

VARIABLES
    tweet,        \* table tweet: rows [id, tweet_id, retweet_id, error], in rowid order
    line,         \* table line: rows [id, prefix, target, msg]
    occurence,    \* table occurence: rows [id, tweet, line]
    rpc,          \* collector: "idle" | "loop" (in the loop over the links) | "done"
    r_ids,        \* collector: tweet ids of the links the loop has still to visit
    maybe_line,   \* collector: handle_message's maybe_line
    log,          \* collector: the messages handled, each with what handle_message returned
    sent,         \* collector: what handle_command sent with send_privmsg
    procs,        \* the publisher processes that are running
    ppc,          \* publisher p: "sleep" | "call" | "write" | "stopped"
    tweet_ids,    \* publisher p: tick's tweet_ids
    idx,          \* publisher p: position of the for loop in tweet_ids
    cur,          \* publisher p: the result of the retweet call being written back
    calls,        \* publisher p: the retweet calls of the current tick, with their outcome
    p_ret,        \* publisher p: what the last tick returned to run: "none" | "ok" | "err"
    okd,          \* the tweet ids for which a retweet call has returned Ok
    limit,        \* the limit tick passes to get_new_tweets
    url,          \* get_tweet: the candidate URL
    found         \* get_tweet: <<>> before the call, then <<result>>

vars == <<tweet, line, occurence, rpc, r_ids, maybe_line, log, sent,
          procs, ppc, tweet_ids, idx, cur, calls, p_ret, okd, limit,
          url, found>>

storeVars == <<tweet, line, occurence>>
recVars == <<rpc, r_ids, maybe_line, log, sent>>
pubVars == <<procs, ppc, tweet_ids, idx, cur, calls, p_ret, okd, limit>>
urlVars == <<url, found>>

----------------------------------------------------------------------------
(* Bounds *)

\* width of the modelled u64 / i64
IdBits == 3
\* number of distinct external tweet ids that appear in messages
MaxId == 2
\* number of messages the collector handles
MaxEvents == 2
\* number of messages the collector handles while two publishers run
MaxRaceEvents == 1
\* length of the id token of a candidate URL, in characters
MaxTok == 2

----------------------------------------------------------------------------
(* Values *)

None == <<>>
Some(v) == <<v>>
NULL == <<>>

Range(s) == {s[i] : i \in 1..Len(s)}

U64_MAX == 2^IdBits - 1

\* `x as i64` for a u64 x
AsI64(u) == IF u >= 2^(IdBits - 1) THEN u - 2^IdBits ELSE u

AsU64_value(i) == i

\* `x as u64` for an i64 x
AsU64(i) == IF i < 0 THEN i + 2^IdBits ELSE i

\* the external ids the messages mention; the second lies in the upper half of u64
ExtId(k) == IF k = 2 THEN U64_MAX - 1 ELSE k
ExtIds == {ExtId(k) : k \in 1..MaxId}

----------------------------------------------------------------------------
(* get_tweet *)

Digit == [c \in {"0", "1", "2", "3", "4", "5", "6", "7", "8", "9"} |->
            CASE c = "0" -> 0 [] c = "1" -> 1 [] c = "2" -> 2 [] c = "3" -> 3
              [] c = "4" -> 4 [] c = "5" -> 5 [] c = "6" -> 6 [] c = "7" -> 7
              [] c = "8" -> 8 [] c = "9" -> 9]

IsDigit(c) == c \in DOMAIN Digit

\* the accumulation loop of u64::from_str: None on a non-digit and on overflow
RECURSIVE ParseDigits(_, _)
ParseDigits(acc, s) ==
    IF s = <<>> THEN Some(acc)
    ELSE IF ~IsDigit(Head(s)) THEN None
    ELSE IF acc * 10 + Digit[Head(s)] > U64_MAX THEN None
    ELSE ParseDigits(acc * 10 + Digit[Head(s)], Tail(s))

\* str::parse::<u64>: an optional leading '+', then at least one digit
ParseU64(s) ==
    IF s = <<>> THEN None
    ELSE LET digits == IF Head(s) = "+" THEN Tail(s) ELSE s
         IN  IF digits = <<>> THEN None ELSE ParseDigits(0, digits)

TWITTER_HOSTS == {"twitter.com", "www.twitter.com", "mobile.twitter.com", "m.twitter.com"}

Status == <<"s", "t", "a", "t", "u", "s">>

get_tweet_any_scheme(u) ==
    IF ~u.parses THEN None
    ELSE IF u.host \notin TWITTER_HOSTS THEN None
    ELSE IF Len(u.segs) < 1 THEN None
    ELSE IF Len(u.segs) < 2 \/ u.segs[2] # Status THEN None
    ELSE IF Len(u.segs) < 3 THEN None
    ELSE ParseU64(u.segs[3])

\* u is a candidate: [parses, scheme, host, segs]
get_tweet(u) ==
    IF ~u.parses THEN None
    ELSE IF u.scheme # "https" THEN None
    ELSE IF u.host \notin TWITTER_HOSTS THEN None
    ELSE IF Len(u.segs) < 1 THEN None
    ELSE IF Len(u.segs) < 2 \/ u.segs[2] # Status THEN None
    ELSE IF Len(u.segs) < 3 THEN None
    ELSE ParseU64(u.segs[3])


\* the candidate URLs get_tweet is applied to
TokChars == {"0", "7", "+", "-", "a"}
Tokens == UNION {[1..n -> TokChars] : n \in 0..MaxTok}
User == <<"a">>
Photo == <<"p">>
Paths ==
    {<<<<>>>>, <<User>>, <<User, Status>>, <<Status, <<"7">>>>}
    \cup {<<u, s, t>> \o rest : u \in {User, <<>>}, s \in {Status, Photo},
                                t \in Tokens, rest \in {<<>>, <<Photo>>}}
Urls == [parses : BOOLEAN, scheme : {"https", "http"},
         host : TWITTER_HOSTS \cup {"t.co", "twitter.com.evil.org"}, segs : Paths]

----------------------------------------------------------------------------
(* Messages *)

NoUrl == [parses |-> FALSE, scheme |-> "", host |-> "", segs |-> <<>>]
\* a word of the text
Word(s) == [t |-> "word", s |-> s, u |-> NoUrl]
\* the text "<nick>:" at the start of a message
Addr(n) == [t |-> "addr", s |-> n, u |-> NoUrl]
\* a URL in the text
Link(u) == [t |-> "url", s |-> "", u |-> u]

\* the decimal digits of n
RECURSIVE Digits(_)
Digits(n) ==
    LET d == CHOOSE c \in DOMAIN Digit : Digit[c] = n % 10
    IN  IF n < 10 THEN <<d>> ELSE Append(Digits(n \div 10), d)

TweetUrl(id) == [parses |-> TRUE, scheme |-> "https", host |-> "twitter.com",
                 segs |-> <<User, Status, Digits(id)>>]
PhotoUrl(id) == [parses |-> TRUE, scheme |-> "https", host |-> "mobile.twitter.com",
                 segs |-> <<User, Status, Digits(id), Photo>>]
HttpUrl(id) == [TweetUrl(id) EXCEPT !.scheme = "http"]
OtherUrl == [parses |-> TRUE, scheme |-> "https", host |-> "t.co", segs |-> <<User>>]

\* the bot's nickname, client.current_nickname()
Me == "bot"
Chan == <<"#", "c">>
Private == <<"b", "o", "t">>

NickPrefix(n) == [kind |-> "nick", nick |-> n]
ServerPrefix == [kind |-> "server", nick |-> ""]
\* prefix.to_string()
PrefixToString(p) == <<p.nick, "user", "host">>

\* texts with recognized links
LinkTexts ==
    {<<Word("see"), Link(TweetUrl(ExtId(k)))>> : k \in 1..MaxId}
    \cup {<<Link(TweetUrl(ExtId(1))), Word("and"), Link(TweetUrl(ExtId(1)))>>,
          <<Link(OtherUrl), Link(PhotoUrl(ExtId(1))), Link(TweetUrl(ExtId(2)))>>}
\* texts without
PlainTexts == {<<Word("hi"), Link(HttpUrl(ExtId(1)))>>}
CommandTexts == {<<Addr(Me), Word("help")>>, <<Addr(Me), Link(TweetUrl(ExtId(1)))>>}

Privmsg(n, target, msg) ==
    [command |-> "PRIVMSG", prefix |-> NickPrefix(n), target |-> target, msg |-> msg]

\* what the IRC stream delivers
Messages ==
    {Privmsg("alice", Chan, t) : t \in LinkTexts \cup PlainTexts \cup CommandTexts}
    \cup {Privmsg("alice", Private, t) : t \in {<<Word("help")>>, <<Link(TweetUrl(ExtId(1)))>>}}
    \cup {[command |-> "PING", prefix |-> ServerPrefix, target |-> <<>>, msg |-> <<>>],
          [command |-> "PRIVMSG", prefix |-> ServerPrefix, target |-> Chan,
           msg |-> <<Link(TweetUrl(ExtId(1)))>>]}

\* link_finder.links(msg), with kinds(&[LinkKind::Url])
links(msg) ==
    LET ls == SelectSeq(msg, LAMBDA tok : tok.t = "url")
    IN  [i \in 1..Len(ls) |-> ls[i].u]

\* the tweet ids the loop of handle_message finds: the links get_tweet accepts, in order
RECURSIVE TweetIdsOf(_)
TweetIdsOf(ls) ==
    IF ls = <<>> THEN <<>>
    ELSE LET t == get_tweet(Head(ls))
         IN  IF t = None THEN TweetIdsOf(Tail(ls))
             ELSE <<t[1]>> \o TweetIdsOf(Tail(ls))

starts_with(s, c) == s # <<>> /\ Head(s) = c

extract_command_addressed_only(target, nick, msg) ==
    IF Len(msg) > 1 /\ msg[1].t = "addr" /\ msg[1].s = Me
    THEN Some([message |-> Tail(msg), response_target |-> target,
               response_address |-> Some(nick)])
    ELSE None

\* Some(ChatCommand) when the message addresses the bot, None otherwise
extract_command(target, nick, msg) ==
    IF ~starts_with(target, "#")
    THEN Some([message |-> msg, response_target |-> <<nick>>, response_address |-> None])
    ELSE IF Len(msg) > 1 /\ msg[1].t = "addr" /\ msg[1].s = Me
    THEN Some([message |-> Tail(msg), response_target |-> target,
               response_address |-> Some(nick)])
    ELSE None

----------------------------------------------------------------------------
(* The store *)

\* insert into line(timestamp, prefix, target, msg); the new row is the last
insert_line(ln, prefix, target, msg) ==
    Append(ln, [id |-> Len(ln) + 1, prefix |-> prefix, target |-> target, msg |-> msg])

HasTweet(tw, stored) == \E i \in 1..Len(tw) : tw[i].tweet_id = stored

insert_tweet_always(tw, tweet_id) ==
    Append(tw, [id |-> Len(tw) + 1, tweet_id |-> AsI64(tweet_id),
                retweet_id |-> NULL, error |-> NULL])

insert_or_replace_tweet(tw, tweet_id) ==
    IF HasTweet(tw, AsI64(tweet_id))
    THEN [i \in 1..Len(tw) |->
            IF tw[i].tweet_id = AsI64(tweet_id)
            THEN [tw[i] EXCEPT !.retweet_id = NULL, !.error = NULL]
            ELSE tw[i]]
    ELSE Append(tw, [id |-> Len(tw) + 1, tweet_id |-> AsI64(tweet_id),
                     retweet_id |-> NULL, error |-> NULL])

\* insert or ignore into tweet(tweet_id), under unique(tweet_id)
insert_or_ignore_tweet(tw, tweet_id) ==
    IF HasTweet(tw, AsI64(tweet_id)) THEN tw
    ELSE Append(tw, [id |-> Len(tw) + 1, tweet_id |-> AsI64(tweet_id),
                     retweet_id |-> NULL, error |-> NULL])

select_tweet_id_column(tw, tweet_id) ==
    LET i == CHOOSE i \in 1..Len(tw) : tw[i].tweet_id = AsI64(tweet_id)
    IN  tw[i].tweet_id

\* select id from tweet where tweet_id = ?
select_tweet(tw, tweet_id) ==
    LET i == CHOOSE i \in 1..Len(tw) : tw[i].tweet_id = AsI64(tweet_id)
    IN  tw[i].id

insert_occurence_always(oc, t, l) ==
    Append(oc, [id |-> Len(oc) + 1, tweet |-> t, line |-> l])

\* insert or ignore into occurence(tweet, line), under unique(tweet, line)
insert_or_ignore_occurence(oc, t, l) ==
    IF \E i \in 1..Len(oc) : oc[i].tweet = t /\ oc[i].line = l THEN oc
    ELSE Append(oc, [id |-> Len(oc) + 1, tweet |-> t, line |-> l])

Pending(row) == row.retweet_id = NULL /\ row.error = NULL

Take(s, n) == IF Len(s) <= n THEN s ELSE SubSeq(s, 1, n)

get_new_tweets_first_rows(tw, lim) ==
    LET rows == SelectSeq(Take(tw, lim), LAMBDA row : row.retweet_id = NULL /\ row.error = NULL)
    IN  [i \in 1..Len(rows) |-> AsU64(rows[i].tweet_id)]

get_new_tweets_unresolved(tw, lim) ==
    LET rows == Take(SelectSeq(tw, LAMBDA row : row.retweet_id = NULL), lim)
    IN  [i \in 1..Len(rows) |-> AsU64(rows[i].tweet_id)]

get_new_tweets_unerrored(tw, lim) ==
    LET rows == Take(SelectSeq(tw, LAMBDA row : row.error = NULL), lim)
    IN  [i \in 1..Len(rows) |-> AsU64(rows[i].tweet_id)]

\* select tweet_id from tweet where retweet_id is null and error is null limit ?
get_new_tweets(tw, lim) ==
    LET rows == Take(SelectSeq(tw, Pending), lim)
    IN  [i \in 1..Len(rows) |-> AsU64(rows[i].tweet_id)]

store_retweet_id_unguarded(tw, tweet_id, retweet_id) ==
    [i \in 1..Len(tw) |->
        IF tw[i].tweet_id = AsI64(tweet_id)
        THEN [tw[i] EXCEPT !.retweet_id = Some(AsI64(retweet_id))]
        ELSE tw[i]]

\* update tweet set retweet_id = ? where tweet_id is ? and retweet_id is null and error is null
store_retweet_id(tw, tweet_id, retweet_id) ==
    [i \in 1..Len(tw) |->
        IF tw[i].tweet_id = AsI64(tweet_id) /\ Pending(tw[i])
        THEN [tw[i] EXCEPT !.retweet_id = Some(AsI64(retweet_id))]
        ELSE tw[i]]

store_error_by_rowid(tw, tweet_id, error) ==
    [i \in 1..Len(tw) |->
        IF tw[i].id = AsI64(tweet_id) /\ Pending(tw[i])
        THEN [tw[i] EXCEPT !.error = Some(error)]
        ELSE tw[i]]

store_error_unguarded(tw, tweet_id, error) ==
    [i \in 1..Len(tw) |->
        IF tw[i].tweet_id = AsI64(tweet_id)
        THEN [tw[i] EXCEPT !.error = Some(error)]
        ELSE tw[i]]

\* update tweet set error = ? where tweet_id is ? and retweet_id is null and error is null
store_error(tw, tweet_id, error) ==
    [i \in 1..Len(tw) |->
        IF tw[i].tweet_id = AsI64(tweet_id) /\ Pending(tw[i])
        THEN [tw[i] EXCEPT !.error = Some(error)]
        ELSE tw[i]]

----------------------------------------------------------------------------
(* The collector *)

Publishers == {"p1", "p2"}

\* the limit tick passes to get_new_tweets
BatchLimit == 100

\* the limit scaled down, so that more tweets can be pending than a batch takes
ScaledLimit == MaxId - 1

\* the bound on the messages handled: the smaller one with two publishers and where
\* liveness is checked
EventBound ==
    IF procs = Publishers \/ limit < BatchLimit THEN MaxRaceEvents ELSE MaxEvents

HelpMsg == "help_msg"

Return_fatal(r) ==
    /\ rpc' = IF r = "err" THEN "done" ELSE "idle"
    /\ log' = [log EXCEPT ![Len(log)].ret = r]
    /\ r_ids' = <<>>
    /\ maybe_line' = None

\* handle_message returns r
Return(r) ==
    /\ rpc' = "idle"
    /\ log' = [log EXCEPT ![Len(log)].ret = r]
    /\ r_ids' = <<>>
    /\ maybe_line' = None

\* handle_message returns r for message m before the loop
ReturnFrom(m, r) ==
    /\ rpc' = "idle"
    /\ log' = Append(log, [m |-> m, ret |-> r])

\* handle_command: the reply to "help", Ok or the error of send_privmsg
handle_command(m, c) ==
    IF c.message = <<Word("help")>>
    THEN \E ok \in BOOLEAN :
            /\ sent' = IF ok THEN Append(sent, [target |-> c.response_target,
                                                msg |-> c.response_address \o <<HelpMsg>>])
                       ELSE sent
            /\ ReturnFrom(m, IF ok THEN "ok" ELSE "err")
    ELSE sent' = sent /\ ReturnFrom(m, "ok")

\* lines 99-102: maybe_line = None and the loop over the links starts
EnterLoop(m) ==
    LET ids == TweetIdsOf(links(m.msg))
    IN  /\ maybe_line' = None
        /\ r_ids' = ids
        /\ log' = Append(log, [m |-> m, ret |-> IF ids = <<>> THEN "ok" ELSE "run"])
        /\ rpc' = IF ids = <<>> THEN "idle" ELSE "loop"

\* handle_message, up to the loop over the links
handle_message(m) ==
    /\ rpc = "idle"
    /\ Len(log) < EventBound
    /\ IF ~(m.command = "PRIVMSG" /\ m.prefix.kind = "nick")
       THEN ReturnFrom(m, "ok") /\ UNCHANGED <<sent, r_ids, maybe_line>>
       ELSE LET c == extract_command(m.target, m.prefix.nick, m.msg)
            IN  IF c # None
                THEN handle_command(m, c[1]) /\ UNCHANGED <<r_ids, maybe_line>>
                ELSE IF starts_with(m.target, "#")
                THEN ReturnFrom(m, "ok") /\ UNCHANGED <<sent, r_ids, maybe_line>>
                ELSE EnterLoop(m) /\ UNCHANGED sent
    /\ UNCHANGED <<storeVars, pubVars, urlVars>>

\* the loop over the links of a message that reached line 99
record_links(m) ==
    /\ rpc = "idle"
    /\ Len(log) < EventBound
    /\ m.command = "PRIVMSG" /\ m.prefix.kind = "nick"
    /\ extract_command(m.target, m.prefix.nick, m.msg) = None
    /\ EnterLoop(m)
    /\ UNCHANGED <<storeVars, sent, pubVars, urlVars>>

CurMsg == log[Len(log)].m

\* the line of the current message: maybe_line, or the row insert_line adds
LineOf(ln) == IF maybe_line = None THEN Len(ln) + 1 ELSE maybe_line[1]

\* lines 114-122: the line is inserted at the first recognized link
WithLine(ln) ==
    IF maybe_line = None
    THEN insert_line(ln, PrefixToString(CurMsg.prefix), CurMsg.target, CurMsg.msg)
    ELSE ln

\* lines 108-125, one iteration of the loop for a recognized link: insert_line at
\* the first one, maybe_insert_tweet (its insert, its select), maybe_insert_occurence;
\* each statement may fail, and handle_message then returns the error
RecordLink ==
    /\ rpc = "loop"
    /\ \/ /\ maybe_line = None
          /\ Return("err")
          /\ UNCHANGED storeVars
       \/ /\ line' = WithLine(line)
          /\ Return("err")
          /\ UNCHANGED <<tweet, occurence>>
       \/ /\ line' = WithLine(line)
          /\ tweet' = insert_or_ignore_tweet(tweet, Head(r_ids))
          /\ Return("err")
          /\ UNCHANGED occurence
       \/ /\ line' = WithLine(line)
          /\ tweet' = insert_or_ignore_tweet(tweet, Head(r_ids))
          /\ occurence' = insert_or_ignore_occurence(
                               occurence, select_tweet(tweet', Head(r_ids)), LineOf(line))
          /\ IF Tail(r_ids) = <<>>
             THEN /\ rpc' = "idle"
                  /\ log' = [log EXCEPT ![Len(log)].ret = "ok"]
                  /\ r_ids' = <<>>
                  /\ maybe_line' = None
             ELSE /\ r_ids' = Tail(r_ids)
                  /\ maybe_line' = Some(LineOf(line))
                  /\ UNCHANGED <<rpc, log>>
    /\ UNCHANGED <<sent, pubVars, urlVars>>

\* main, line 285: stream.next() yields an error, `?` returns it and the process ends
StreamError ==
    /\ rpc = "idle"
    /\ rpc' = "done"
    /\ UNCHANGED <<storeVars, r_ids, maybe_line, log, sent, pubVars, urlVars>>

----------------------------------------------------------------------------
(* The publisher *)

\* what egg_mode::tweet::retweet returns to process p: the id of the new retweet
\* (ids are fresh: one stands for those p is given, in the upper half of u64 for
\* p2), or an error
RetweetId(p) == IF p = "p1" THEN 2 ELSE U64_MAX
Outcomes(p) == {[ok |-> TRUE, id |-> RetweetId(p), msg |-> ""],
                [ok |-> FALSE, id |-> 0, msg |-> "forbidden"]}

\* no call is being written back
NoCall == [tweet_id |-> 0, out |-> [ok |-> FALSE, id |-> 0, msg |-> ""]]

TickReturn_propagating(p, r) ==
    /\ ppc' = [ppc EXCEPT ![p] = IF r = "err" THEN "stopped" ELSE "sleep"]
    /\ p_ret' = [p_ret EXCEPT ![p] = r]
    /\ tweet_ids' = [tweet_ids EXCEPT ![p] = <<>>]
    /\ idx' = [idx EXCEPT ![p] = 1]
    /\ cur' = [cur EXCEPT ![p] = NoCall]
    /\ calls' = [calls EXCEPT ![p] = <<>>]

\* tick returns r (Ok, or the error that run logs) and run sleeps
TickReturn(p, r) ==
    /\ ppc' = [ppc EXCEPT ![p] = "sleep"]
    /\ p_ret' = [p_ret EXCEPT ![p] = r]
    /\ tweet_ids' = [tweet_ids EXCEPT ![p] = <<>>]
    /\ idx' = [idx EXCEPT ![p] = 1]
    /\ cur' = [cur EXCEPT ![p] = NoCall]
    /\ calls' = [calls EXCEPT ![p] = <<>>]

\* lines 107-110: a tick starts with the query for the batch
Tick(p) ==
    /\ p \in procs
    /\ ppc[p] = "sleep"
    /\ \/ TickReturn(p, "err")
       \/ LET ids == get_new_tweets(tweet, limit)
          IN  IF ids = <<>>
              THEN TickReturn(p, "ok")
              ELSE /\ tweet_ids' = [tweet_ids EXCEPT ![p] = ids]
                   /\ ppc' = [ppc EXCEPT ![p] = "call"]
                   /\ UNCHANGED <<idx, cur, calls, p_ret>>
    /\ UNCHANGED <<storeVars, recVars, procs, okd, limit, urlVars>>

\* lines 115-116: the retweet call for the next tweet of the batch
Retweet(p) ==
    /\ p \in procs
    /\ ppc[p] = "call"
    /\ \E out \in Outcomes(p) :
          /\ cur' = [cur EXCEPT ![p] = [tweet_id |-> tweet_ids[p][idx[p]], out |-> out]]
          /\ calls' = [calls EXCEPT ![p] = Append(@, [tweet_id |-> tweet_ids[p][idx[p]],
                                                      ok |-> out.ok])]
          /\ okd' = IF out.ok THEN okd \cup {tweet_ids[p][idx[p]]} ELSE okd
    /\ ppc' = [ppc EXCEPT ![p] = "write"]
    /\ UNCHANGED <<storeVars, recVars, procs, tweet_ids, idx, p_ret, limit, urlVars>>

StoreResult_deferred(p) ==
    /\ p \in procs
    /\ ppc[p] = "write"
    /\ IF idx[p] = Len(tweet_ids[p])
       THEN /\ tweet' = IF cur[p].out.ok
                        THEN store_retweet_id(tweet, cur[p].tweet_id, cur[p].out.id)
                        ELSE store_error(tweet, cur[p].tweet_id, cur[p].out.msg)
            /\ TickReturn(p, "ok")
       ELSE /\ tweet' = tweet
            /\ idx' = [idx EXCEPT ![p] = @ + 1]
            /\ ppc' = [ppc EXCEPT ![p] = "call"]
            /\ UNCHANGED <<tweet_ids, cur, calls, p_ret>>
    /\ UNCHANGED <<line, occurence, recVars, procs, okd, limit, urlVars>>

StoreResult_isolating(p) ==
    /\ p \in procs
    /\ ppc[p] = "write"
    /\ \E failed \in BOOLEAN :
          /\ tweet' = IF failed THEN tweet
                      ELSE IF cur[p].out.ok
                      THEN store_retweet_id(tweet, cur[p].tweet_id, cur[p].out.id)
                      ELSE store_error(tweet, cur[p].tweet_id, cur[p].out.msg)
          /\ IF idx[p] = Len(tweet_ids[p])
             THEN TickReturn(p, IF failed THEN "err" ELSE "ok")
             ELSE /\ idx' = [idx EXCEPT ![p] = @ + 1]
                  /\ ppc' = [ppc EXCEPT ![p] = "call"]
                  /\ UNCHANGED <<tweet_ids, cur, calls, p_ret>>
    /\ UNCHANGED <<line, occurence, recVars, procs, okd, limit, urlVars>>

\* lines 117-126: the result is written back, then the next tweet or the return of line 129
StoreResult(p) ==
    /\ p \in procs
    /\ ppc[p] = "write"
    /\ \/ /\ TickReturn(p, "err")
          /\ UNCHANGED tweet
       \/ /\ tweet' = IF cur[p].out.ok
                      THEN store_retweet_id(tweet, cur[p].tweet_id, cur[p].out.id)
                      ELSE store_error(tweet, cur[p].tweet_id, cur[p].out.msg)
          /\ IF idx[p] = Len(tweet_ids[p])
             THEN TickReturn(p, "ok")
             ELSE /\ idx' = [idx EXCEPT ![p] = @ + 1]
                  /\ ppc' = [ppc EXCEPT ![p] = "call"]
                  /\ UNCHANGED <<tweet_ids, cur, calls, p_ret>>
    /\ UNCHANGED <<line, occurence, recVars, procs, okd, limit, urlVars>>

----------------------------------------------------------------------------
(* Specifications *)

InitStore ==
    /\ tweet = <<>>
    /\ line = <<>>
    /\ occurence = <<>>

InitCollector ==
    /\ rpc = "idle"
    /\ r_ids = <<>>
    /\ maybe_line = None
    /\ log = <<>>
    /\ sent = <<>>

InitPublishers ==
    /\ ppc = [p \in Publishers |-> "sleep"]
    /\ tweet_ids = [p \in Publishers |-> <<>>]
    /\ idx = [p \in Publishers |-> 1]
    /\ cur = [p \in Publishers |-> NoCall]
    /\ calls = [p \in Publishers |-> <<>>]
    /\ p_ret = [p \in Publishers |-> "none"]
    /\ okd = {}

Init ==
    /\ InitStore
    /\ InitCollector
    /\ InitPublishers
    /\ procs = {"p1"}
    /\ limit = BatchLimit
    /\ url = NoUrl
    /\ found = <<>>

Next ==
    \/ \E m \in Messages : record_links(m)
    \/ RecordLink
    \/ \E p \in Publishers : Tick(p) \/ Retweet(p) \/ StoreResult(p)

Spec == Init /\ [][Next]_vars

InitTwo ==
    /\ InitStore
    /\ InitCollector
    /\ InitPublishers
    /\ procs = Publishers
    /\ limit = BatchLimit
    /\ url = NoUrl
    /\ found = <<>>

SpecTwo == InitTwo /\ [][Next]_vars

InitCollect ==
    /\ InitStore
    /\ InitCollector
    /\ InitPublishers
    /\ procs = {}
    /\ limit = BatchLimit
    /\ url = NoUrl
    /\ found = <<>>

NextCollect == \E m \in Messages : handle_message(m)

SpecCollect == InitCollect /\ [][NextCollect]_vars

InitGetTweet ==
    /\ InitStore
    /\ InitCollector
    /\ InitPublishers
    /\ procs = {}
    /\ limit = BatchLimit
    /\ url \in Urls
    /\ found = <<>>

ApplyGetTweet ==
    /\ found = <<>>
    /\ found' = <<get_tweet(url)>>
    /\ UNCHANGED <<storeVars, recVars, pubVars, url>>

SpecGetTweet == InitGetTweet /\ [][ApplyGetTweet]_vars

\* one publisher with the scaled limit
InitLive ==
    /\ InitStore
    /\ InitCollector
    /\ InitPublishers
    /\ procs = {"p1"}
    /\ limit = ScaledLimit
    /\ url = NoUrl
    /\ found = <<>>

\* the query of a tick returns Ok
TickQueryOk(p) == Tick(p) /\ ~(ppc'[p] = "sleep" /\ p_ret'[p] = "err")
\* the write-back returns Ok
StoreResultOk(p) == StoreResult(p) /\ ~(ppc'[p] = "sleep" /\ p_ret'[p] = "err")

\* run keeps looping and every retweet call returns; store operations may fail forever
SpecRun ==
    /\ InitLive
    /\ [][Next]_vars
    /\ WF_vars(Tick("p1") \/ Retweet("p1") \/ StoreResult("p1"))

\* run keeps looping, every retweet call returns, and the query and the write-back
\* do not fail forever
SpecLive ==
    /\ InitLive
    /\ [][Next]_vars
    /\ WF_vars(Retweet("p1"))
    /\ SF_vars(TickQueryOk("p1"))
    /\ SF_vars(StoreResultOk("p1"))

NextRecorder ==
    \/ \E m \in Messages : handle_message(m)
    \/ \E m \in Messages : record_links(m)
    \/ RecordLink
    \/ StreamError

SpecRecorder == InitCollect /\ [][NextRecorder]_vars

----------------------------------------------------------------------------
(* Properties *)

Rows(tw, id) == {i \in 1..Len(tw) : tw[i].tweet_id = AsI64(id)}
Resolved(tw, id) == \E i \in Rows(tw, id) : tw[i].retweet_id # NULL
Errored(tw, id) == \E i \in Rows(tw, id) : tw[i].error # NULL
StillPending(tw, id) == \E i \in Rows(tw, id) : Pending(tw[i])

\* the step of p is the query of a tick that found a batch
StartsBatch(p) == ppc[p] = "sleep" /\ ppc'[p] = "call"
\* the step of p is a retweet call
CallsRetweet(p) == ppc[p] = "call" /\ ppc'[p] = "write"
\* the step of p is a write-back that returned Ok
WroteBack(p) == ppc[p] = "write" /\ (ppc'[p] = "call" \/ (ppc'[p] = "sleep" /\ p_ret'[p] = "ok"))

\* a PRIVMSG to a channel that does not address the bot
PlainChannel(m) ==
    /\ m.command = "PRIVMSG"
    /\ m.prefix.kind = "nick"
    /\ starts_with(m.target, "#")
    /\ extract_command(m.target, m.prefix.nick, m.msg) = None

IdsOf(m) == TweetIdsOf(links(m.msg))

\* a message that is eligible for recording
Eligible(m) == PlainChannel(m) /\ IdsOf(m) # <<>>

\* C1: no row of tweet has both retweet_id and error set, whatever the interleaving
\* of the collector and of two publishers and whatever the retweet calls return.
C1_NeverBoth ==
    \A i \in 1..Len(tweet) : ~(tweet[i].retweet_id # NULL /\ tweet[i].error # NULL)

\* a retweet call returned Ok for a tweet whose row holds the error another call got
C1_Witness ==
    \E i \in 1..Len(tweet) :
        /\ tweet[i].error # NULL
        /\ AsU64(tweet[i].tweet_id) \in okd
        /\ \A p \in procs : ppc[p] = "sleep" /\ p_ret[p] = "ok"

\* C2 as claimed: once a retweet call has returned Ok for a tweet, no retweet call is
\* made for that tweet again (the calls of one tick are for distinct tweets, so a
\* second call belongs to a later tick).
C2_Original ==
    [][\A p \in procs : CallsRetweet(p) => cur'[p].tweet_id \notin okd]_vars

\* C2 as amended: once the retweet id of a tweet is written to its row, the row stays
\* resolved, no later tick selects the tweet, and a tick calls retweet only for the
\* tweets it selected.
C2_Amended ==
    [][/\ \A id \in ExtIds : Resolved(tweet, id) => Resolved(tweet', id)
       /\ \A p \in procs :
            /\ StartsBatch(p) =>
                 \A k \in 1..Len(tweet_ids'[p]) : ~Resolved(tweet, tweet_ids'[p][k])
            /\ CallsRetweet(p) => cur'[p].tweet_id = tweet_ids[p][idx[p]]]_vars

\* a tick is calling retweet while the row of a tweet outside its batch is resolved
C2_Witness ==
    \E p \in procs : \E id \in ExtIds :
        /\ ppc[p] = "call"
        /\ Resolved(tweet, id)
        /\ \A k \in 1..Len(tweet_ids[p]) : tweet_ids[p][k] # id

\* C3: when handle_message has returned Ok for a plain channel message with a
\* recognized link, the last row of line is that message, and every tweet id of the
\* message has a row in tweet and an occurence row linking it to that line.
C3_Recorded ==
    (rpc = "idle" /\ log # <<>> /\ log[Len(log)].ret = "ok"
        /\ PlainChannel(log[Len(log)].m) /\ IdsOf(log[Len(log)].m) # <<>>)
    => LET m == log[Len(log)].m
       IN  /\ line # <<>>
           /\ line[Len(line)].prefix = PrefixToString(m.prefix)
           /\ line[Len(line)].target = m.target
           /\ line[Len(line)].msg = m.msg
           /\ \A id \in Range(IdsOf(m)) :
                \E i \in Rows(tweet, id) : \E j \in 1..Len(occurence) :
                    occurence[j].tweet = tweet[i].id /\ occurence[j].line = Len(line)

\* C4: when the same plain channel message with one recognized link has been handled
\* twice from the empty store, the store holds 1 line, 1 tweet and 1 occurence row.
C4_Idempotent ==
    (rpc = "idle" /\ Len(log) = 2 /\ log[1].m = log[2].m
        /\ log[1].ret = "ok" /\ log[2].ret = "ok"
        /\ PlainChannel(log[1].m) /\ Len(IdsOf(log[1].m)) = 1)
    => (Len(line) = 1 /\ Len(tweet) = 1 /\ Len(occurence) = 1)

\* C5: once retweet_id or error of a row of tweet is set, no step of the collector or
\* of either publisher changes retweet_id or error of that row.
C5_WriteOnce ==
    [][\A i \in 1..Len(tweet) :
          ~Pending(tweet[i]) =>
              /\ i <= Len(tweet')
              /\ tweet'[i].tweet_id = tweet[i].tweet_id
              /\ tweet'[i].retweet_id = tweet[i].retweet_id
              /\ tweet'[i].error = tweet[i].error]_vars

\* a publisher is about to write back the result for a row that is no longer pending
C5_Witness ==
    \E p \in procs :
        /\ ppc[p] = "write"
        /\ ~StillPending(tweet, cur[p].tweet_id)

\* C6: once the error of a tweet is written to its row, the row stays errored, no
\* later tick selects the tweet, and a tick calls retweet only for the tweets it
\* selected.
C6_ErroredExcluded ==
    [][/\ \A id \in ExtIds : Errored(tweet, id) => Errored(tweet', id)
       /\ \A p \in procs :
            /\ StartsBatch(p) =>
                 \A k \in 1..Len(tweet_ids'[p]) : ~Errored(tweet, tweet_ids'[p][k])
            /\ CallsRetweet(p) => cur'[p].tweet_id \in Range(tweet_ids[p])]_vars

\* a tick is calling retweet while the row of a tweet outside its batch is errored
C6_Witness ==
    \E p \in procs : \E id \in ExtIds :
        /\ ppc[p] = "call"
        /\ Errored(tweet, id)
        /\ id \notin Range(tweet_ids[p])

\* C7: tweet holds at most one row per external id, and every occurence row refers to
\* the row of an id its line mentions: the later mentions reuse the row.
C7_OnePostPerId ==
    /\ \A i, j \in 1..Len(tweet) : tweet[i].tweet_id = tweet[j].tweet_id => i = j
    /\ \A k \in 1..Len(occurence) :
          \E id \in Range(TweetIdsOf(links(line[occurence[k].line].msg))) :
              Rows(tweet, id) = {occurence[k].tweet}

\* two lines have an occurence of the same tweet row
C7_Witness ==
    \E j, k \in 1..Len(occurence) :
        occurence[j].tweet = occurence[k].tweet /\ occurence[j].line # occurence[k].line

\* C8: occurence holds at most one row per (tweet, line) pair.
C8_OneOccurencePerPair ==
    \A j, k \in 1..Len(occurence) :
        (occurence[j].tweet = occurence[k].tweet /\ occurence[j].line = occurence[k].line)
            => j = k

\* a message that repeats a link has been recorded, and a message has been replayed
C8_Witness ==
    /\ rpc = "idle"
    /\ \E k \in 1..Len(log) :
          /\ log[k].ret = "ok"
          /\ Len(IdsOf(log[k].m)) > Cardinality(Range(IdsOf(log[k].m)))
    /\ \E j, k \in 1..Len(log) : j # k /\ log[j] = log[k] /\ IdsOf(log[j].m) # <<>>

\* C9: in a tick of the only publisher, every write-back that returns Ok leaves the
\* row resolved with the retweet id when the call returned Ok and errored with the
\* message when it failed, and goes on to the next tweet of the batch; when the tick
\* returns Ok every tweet of the batch was called once, in order, each row is resolved
\* exactly when its call returned Ok and errored exactly when it failed, and the query
\* of the next tick selects none of them.
C9_BatchOutcome ==
    [][\A p \in procs :
          WroteBack(p) =>
              LET id == cur[p].tweet_id
                  out == cur[p].out
              IN  /\ \E i \in Rows(tweet', id) :
                        /\ tweet'[i].retweet_id =
                              (IF out.ok THEN Some(AsI64(out.id)) ELSE NULL)
                        /\ tweet'[i].error = (IF out.ok THEN NULL ELSE Some(out.msg))
                  /\ idx[p] < Len(tweet_ids[p]) => (ppc'[p] = "call" /\ idx'[p] = idx[p] + 1)
                  /\ ppc'[p] = "sleep" =>
                        /\ [k \in 1..Len(calls[p]) |-> calls[p][k].tweet_id] = tweet_ids[p]
                        /\ Cardinality(Range(tweet_ids[p])) = Len(tweet_ids[p])
                        /\ \A k \in 1..Len(calls[p]) :
                              /\ calls[p][k].ok <=> Resolved(tweet', calls[p][k].tweet_id)
                              /\ ~calls[p][k].ok <=> Errored(tweet', calls[p][k].tweet_id)
                        /\ Range(get_new_tweets(tweet', BatchLimit))
                              \cap Range(tweet_ids[p]) = {}]_vars

\* the first call of a tick failed and its error is written; the call for the second
\* tweet of the batch returned Ok and is being written back
C9_Witness ==
    \E p \in procs :
        /\ ppc[p] = "write"
        /\ idx[p] = 2
        /\ ~calls[p][1].ok
        /\ Errored(tweet, calls[p][1].tweet_id)
        /\ cur[p].out.ok

\* the value of a sequence of decimal digits
RECURSIVE DecimalValue(_)
DecimalValue(s) ==
    IF s = <<>> THEN 0
    ELSE DecimalValue(SubSeq(s, 1, Len(s) - 1)) * 10 + Digit[s[Len(s)]]

AllDigits(s) == s # <<>> /\ \A i \in 1..Len(s) : IsDigit(s[i])

\* C10 as claimed: get_tweet returns an id only for an https URL of an allow-listed
\* host whose path is exactly /<segment>/status/<decimal digits>, and the id is the
\* value of the digits.
C10_Original ==
    (found # <<>> /\ found[1] # None) =>
        /\ url.scheme = "https"
        /\ url.host \in TWITTER_HOSTS
        /\ Len(url.segs) = 3
        /\ url.segs[2] = Status
        /\ AllDigits(url.segs[3])
        /\ found[1] = Some(DecimalValue(url.segs[3]))

\* C10 as amended: get_tweet returns an id only for an https URL of an allow-listed
\* host whose path starts with /<segment>/status/<token>, where the token is decimal
\* digits with an optional leading "+"; the id is the value of the digits and fits
\* u64; path segments after the token are ignored.
C10_Amended ==
    (found # <<>> /\ found[1] # None) =>
        /\ url.parses
        /\ url.scheme = "https"
        /\ url.host \in TWITTER_HOSTS
        /\ Len(url.segs) >= 3
        /\ url.segs[2] = Status
        /\ LET tok == url.segs[3]
               digits == IF tok # <<>> /\ Head(tok) = "+" THEN Tail(tok) ELSE tok
           IN  /\ AllDigits(digits)
               /\ found[1] = Some(DecimalValue(digits))
               /\ DecimalValue(digits) <= U64_MAX

\* get_tweet has returned an id for a URL with a signed token and a trailing segment
C10_Witness ==
    /\ found # <<>>
    /\ found[1] # None
    /\ Len(url.segs) > 3
    /\ Head(url.segs[3]) = "+"

\* C11: handle_message, given a message that is not eligible for recording (not a
\* PRIVMSG from a nick, a private message, a message addressed to the bot, a message
\* without a recognized tweet id), returns without entering the loop over the links
\* and leaves the tables line, tweet and occurence as they were.
C11_Frame ==
    [][(Len(log') = Len(log) + 1 /\ ~Eligible(log'[Len(log')].m)) =>
          /\ line' = line
          /\ tweet' = tweet
          /\ occurence' = occurence
          /\ rpc' = "idle"
          /\ log'[Len(log')].ret \in {"ok", "err"}]_vars

\* the store holds a recorded line, and the message handled last is a private message
\* with a recognized tweet link
C11_Witness ==
    /\ rpc = "idle"
    /\ line # <<>>
    /\ occurence # <<>>
    /\ log[Len(log)].m.command = "PRIVMSG"
    /\ ~starts_with(log[Len(log)].m.target, "#")
    /\ IdsOf(log[Len(log)].m) # <<>>
    /\ log[Len(log)].ret = "ok"

\* C12: with a publisher that keeps running, retweet calls that return, and queries
\* and write-backs that do not fail forever, every tweet whose row is pending
\* eventually has its row resolved or errored, and not both; also when more rows are
\* pending than a batch takes and while the collector adds rows.
C12_EventuallySettled ==
    \A id \in ExtIds :
        StillPending(tweet, id) ~>
            /\ Resolved(tweet, id) \/ Errored(tweet, id)
            /\ ~(Resolved(tweet, id) /\ Errored(tweet, id))

\* more rows than a batch takes, none of them pending any more
C12_Witness ==
    /\ Len(tweet) > limit
    /\ \A i \in 1..Len(tweet) : ~Pending(tweet[i])
    /\ \E i, j \in 1..Len(tweet) : tweet[i].retweet_id # NULL /\ tweet[j].error # NULL

\* C13: whatever the ticks return (Ok, Ok on an empty batch, the error of the query or
\* of a write-back), run is again and again asleep between two ticks, and whenever it
\* is, the next tick can start.
C13_AlwaysAnotherTick ==
    \A p \in Publishers :
        /\ []<>(p \in procs => ppc[p] = "sleep")
        /\ []((p \in procs /\ ppc[p] = "sleep") => ENABLED Tick(p))

\* run sleeps after a tick that ended with the error of a write-back: a retweet call
\* of that tick had returned Ok and its tweet is still pending
C13_Witness ==
    \E p \in procs : \E id \in okd :
        /\ ppc[p] = "sleep"
        /\ p_ret[p] = "err"
        /\ StillPending(tweet, id)

\* the step of p is a write-back that failed: the row of the tweet is still pending
WriteFailed(p) == ppc[p] = "write" /\ ppc'[p] # "write" /\ StillPending(tweet', cur[p].tweet_id)

\* C14 as claimed: after a write-back that failed, the tick goes on to the next tweet
\* of its batch.
C14_Original ==
    [][\A p \in procs :
          (WriteFailed(p) /\ idx[p] < Len(tweet_ids[p])) => ppc'[p] = "call"]_vars

\* C14 as amended: a write-back that fails ends the tick with the error, as a failed
\* query does: the store is left as it was, no call is made for the tweets of the
\* batch after this one, and they and this one stay pending for the next tick.
C14_Amended ==
    [][\A p \in procs :
          WriteFailed(p) =>
              /\ ppc'[p] = "sleep"
              /\ p_ret'[p] = "err"
              /\ tweet' = tweet
              /\ Len(calls[p]) = idx[p]
              /\ \A k \in idx[p]..Len(tweet_ids[p]) :
                    StillPending(tweet', tweet_ids[p][k])]_vars

\* a tick has ended with an error after the call for the first tweet of a batch of
\* two; both are pending
C14_Witness ==
    \E p \in procs :
        /\ ppc[p] = "sleep"
        /\ p_ret[p] = "err"
        /\ okd # {}
        /\ Len(get_new_tweets(tweet, limit)) = 2
        /\ \A i \in 1..Len(tweet) : Pending(tweet[i])

\* s is t, or t with rows added at its end
Extends(s, t) == Len(s) >= Len(t) /\ SubSeq(s, 1, Len(t)) = t

\* C15: when a store operation fails in the iteration of the loop for a link,
\* handle_message returns the error at once: the links after it are dropped, the rows
\* the store held (the line of the message and the rows of the links before) remain,
\* no occurence row is added, and the collector is ready for the next message; once
\* the IRC stream has yielded an error the collector does nothing any more.
C15_AbortOnFailure ==
    [][/\ (rpc = "loop" /\ log'[Len(log)].ret = "err") =>
             /\ rpc' = "idle"
             /\ r_ids' = <<>>
             /\ Len(log') = Len(log)
             /\ Extends(line', line) /\ Len(line') <= Len(line) + 1
             /\ Extends(tweet', tweet) /\ Len(tweet') <= Len(tweet) + 1
             /\ occurence' = occurence
             /\ maybe_line # None => line' = line
       /\ rpc = "loop" => (Extends(line', line) /\ Extends(occurence', occurence))
       /\ rpc' = "done" => (rpc \in {"idle", "done"} /\ log' = log)
       /\ rpc = "done" =>
             (rpc' = "done" /\ log' = log /\ line' = line /\ tweet' = tweet
                 /\ occurence' = occurence)]_vars

\* the first message had two tweet links and the store failed at the second: its line
\* holds the occurence of the first link alone; the next message was then recorded
C15_Witness ==
    /\ Len(log) >= 2
    /\ log[1].ret = "err"
    /\ Cardinality(Range(IdsOf(log[1].m))) = 2
    /\ Cardinality({k \in 1..Len(occurence) : occurence[k].line = 1}) = 1
    /\ log[2].ret = "ok"
    /\ \E k \in 1..Len(occurence) : occurence[k].line = 2

\* C16: the table line holds exactly one row for each message with at least one
\* recognized tweet link for which handle_message has returned Ok.
C16_OneLinePerEvent ==
    rpc = "idle" =>
        Len(line) = Cardinality({k \in 1..Len(log) :
                                    Eligible(log[k].m) /\ log[k].ret = "ok"})

\* the calls of the current tick of p whose outcome is not written to the store
Unwritten(p) == {k \in 1..Len(calls[p]) : StillPending(tweet, calls[p][k].tweet_id)}

\* C17: the batch of a tick holds at most BatchLimit tweets, all pending at the query,
\* and a tick with an empty batch makes no call; the calls of a tick are made in the
\* order of the batch, one for each position, and when a call is made the outcome of
\* every earlier call of the tick is written; at any moment the only outcome that may
\* be unwritten is that of the last call, while its write-back is due.
C17_Sequential ==
    /\ [][\A p \in procs :
             /\ StartsBatch(p) =>
                   /\ Len(tweet_ids'[p]) <= BatchLimit
                   /\ \A k \in 1..Len(tweet_ids'[p]) : StillPending(tweet, tweet_ids'[p][k])
                   /\ calls'[p] = <<>>
             /\ (ppc[p] = "sleep" /\ get_new_tweets(tweet, limit) = <<>>) =>
                   (ppc'[p] = "sleep" /\ calls'[p] = <<>>)
             /\ CallsRetweet(p) =>
                   /\ Len(calls[p]) = idx[p] - 1
                   /\ cur'[p].tweet_id = tweet_ids[p][idx[p]]
                   /\ calls'[p][idx[p]].tweet_id = tweet_ids[p][idx[p]]
                   /\ Unwritten(p) = {}]_vars
    /\ [](\A p \in procs :
             /\ Unwritten(p) \subseteq {Len(calls[p])}
             /\ Unwritten(p) # {} => ppc[p] = "write")

\* the outcome of the second call of a tick is received and not written; that of the
\* first is written
C17_Witness ==
    \E p \in procs :
        /\ ppc[p] = "write"
        /\ Len(calls[p]) = 2
        /\ Unwritten(p) = {2}
        /\ ~StillPending(tweet, calls[p][1].tweet_id)

\* the step is an iteration of the loop over the links
RecordsLink == rpc = "loop" /\ (rpc' # rpc \/ r_ids' # r_ids)

\* C18: an iteration of the loop over the links leaves every row of tweet as it was,
\* adds no row when the id of the link is stored already, and otherwise adds at most
\* one row, with retweet_id and error null; no step makes a row that is resolved or
\* errored pending again, and no tick selects such a row.
C18_RecorderKeepsOutcome ==
    [][/\ RecordsLink =>
             /\ Extends(tweet', tweet)
             /\ HasTweet(tweet, AsI64(Head(r_ids))) => tweet' = tweet
             /\ Len(tweet') <= Len(tweet) + 1
             /\ \A i \in (Len(tweet) + 1)..Len(tweet') :
                   /\ tweet'[i].tweet_id = AsI64(Head(r_ids))
                   /\ tweet'[i].retweet_id = NULL
                   /\ tweet'[i].error = NULL
       /\ (rpc = "idle" /\ log' # log) => tweet' = tweet
       /\ \A i \in 1..Len(tweet) : ~Pending(tweet[i]) => ~Pending(tweet'[i])
       /\ \A p \in procs :
             StartsBatch(p) =>
                 \A i \in 1..Len(tweet) :
                     ~Pending(tweet[i]) => AsU64(tweet[i].tweet_id) \notin Range(tweet_ids'[p])]_vars

\* the loop is at the second link of a message, a link to a tweet that an earlier
\* line mentions and whose row is resolved
C18_Witness ==
    /\ rpc = "loop"
    /\ maybe_line # None
    /\ Resolved(tweet, Head(r_ids))
    /\ \E k \in 1..Len(occurence) :
          /\ occurence[k].tweet = select_tweet(tweet, Head(r_ids))
          /\ occurence[k].line < maybe_line[1]

\* C19: every row of occurence refers to a row of line and to a row of tweet that are
\* in the store, also after a store operation has failed in the middle of a message.
C19_OccurenceRefsExist ==
    \A k \in 1..Len(occurence) :
        /\ \E i \in 1..Len(line) : line[i].id = occurence[k].line
        /\ \E i \in 1..Len(tweet) : tweet[i].id = occurence[k].tweet

\* a message was left after a failure with a line and a tweet row that no occurence
\* refers to, next to a line and a tweet row that have one
C19_Witness ==
    /\ rpc = "idle"
    /\ occurence # <<>>
    /\ \E k \in 1..Len(log) : log[k].ret = "err"
    /\ \E i \in 1..Len(line) : \A k \in 1..Len(occurence) : occurence[k].line # line[i].id
    /\ \E i \in 1..Len(tweet) : \A k \in 1..Len(occurence) : occurence[k].tweet # tweet[i].id

\* the tweet ids the lines of the store mention
Mentioned == UNION {Range(TweetIdsOf(links(line[i].msg))) : i \in 1..Len(line)}

\* C20: the cast to i64 followed by the cast to u64 gives back every u64, the cast to
\* i64 sends distinct ids to distinct values of the column and the ids of the upper
\* half to negative ones; so tweet holds one row for each id and no two for one, and
\* the ids a tick selects and calls retweet with are ids that messages mentioned.
C20_CastRoundTrip ==
    /\ \A u \in 0..U64_MAX :
          /\ AsU64(AsI64(u)) = u
          /\ AsI64(u) >= -(2^(IdBits - 1)) /\ AsI64(u) < 2^(IdBits - 1)
          /\ u >= 2^(IdBits - 1) <=> AsI64(u) < 0
    /\ \A u, v \in 0..U64_MAX : AsI64(u) = AsI64(v) => u = v
    /\ \A i, j \in 1..Len(tweet) :
          AsU64(tweet[i].tweet_id) = AsU64(tweet[j].tweet_id) => i = j
    /\ \A i \in 1..Len(tweet) : AsU64(tweet[i].tweet_id) \in Mentioned
    /\ \A p \in procs :
          /\ Range(tweet_ids[p]) \subseteq Mentioned
          /\ \A k \in 1..Len(calls[p]) : calls[p][k].tweet_id \in Mentioned

\* retweet has been called with an id of the upper half of u64, whose row holds a
\* negative tweet_id
C20_Witness ==
    \E p \in procs : \E i \in 1..Len(tweet) :
        /\ ppc[p] = "write"
        /\ cur[p].tweet_id >= 2^(IdBits - 1)
        /\ tweet[i].tweet_id < 0
        /\ AsU64(tweet[i].tweet_id) = cur[p].tweet_id

=============================================================================
